---- MODULE Spec2Model ----
(***************************************************************************)
(* Model of the coffee-shop order pipeline of workflow-quickstart-py:      *)
(* src/src/coffee_shop/workflows.py (tasks calculate_order_price,          *)
(* check_inventory, calculate_loyalty_points; workflows process_pricing,   *)
(* process_inventory, process_order).                                      *)
(*                                                                         *)
(* Money is a Python float in the source.  Here an amount is an integer    *)
(* number of 1/10000 currency units, which represents every table entry    *)
(* and every product with a discount rate exactly.                         *)
(***************************************************************************)
EXTENDS Integers, Sequences, FiniteSets, TLC

\* ------------------------------------------------------------------ bounds
MaxExtras == 2
MaxSpendWhole == 402
MaxEarned == 5
MaxDays == 2
MaxPosts == 2

\* ------------------------------------------------------------ input values
Scale == 100 * 100
Cents(c) == c * (Scale \div 100)

Sizes == {"small", "medium", "large", "venti"}
DrinkTypes == {"latte", "cappuccino", "espresso", "mocha"}
ExtraNames == {"extra_shot", "whipped_cream", "syrup", "sprinkles"}
TierNames == {"bronze", "silver", "gold", "platinum"}
OrderIds == {"CO123", "CO124"}
CustomerIds == {"CUST456", "CUST789"}

ExtrasLists == UNION {[1..k -> ExtraNames] : k \in 0..MaxExtras}

CoffeeOrder ==
  [order_id : OrderIds, customer_id : CustomerIds, drink_type : DrinkTypes,
   size : Sizes, extras : ExtrasLists]

SpendFractions == {0, Scale \div 2, Scale - 1}
Spends ==
  {sign * (w * Scale + f) : sign \in {1, -1}, w \in 0..MaxSpendWhole, f \in SpendFractions}

None == [none |-> TRUE]

\* ------------------------------------------------------- python primitives
\* dict.get(key, default)
Get(dict, key, default) == IF key \in DOMAIN dict THEN dict[key] ELSE default

\* int(x) of a float: truncation toward zero
int_floor(x) == x \div Scale
int(x) == IF x >= 0 THEN x \div Scale ELSE -((-x) \div Scale)

\* x in list
In(x, list) == \E i \in DOMAIN list : list[i] = x

\* str(KeyError(key)) is repr(key): the key between quotes
KeyError(key) == [type |-> "KeyError", key |-> key]
str(e) == <<"'", e.key, "'">>

Returned(v) == [raised |-> FALSE, value |-> v]
Raised(e) == [raised |-> TRUE, exc |-> e]

\* dict[key]: KeyError when the key is missing
SubscriptOrZero(dict, key) == Returned(Get(dict, key, 0))
Subscript(dict, key) ==
  IF key \in DOMAIN dict THEN Returned(dict[key]) ELSE Raised(KeyError(key))

\* ------------------------------------------------------------------- tasks
base_prices == [small |-> Cents(350), medium |-> Cents(400), large |-> Cents(450)]
drink_markups == [latte |-> Cents(100), cappuccino |-> Cents(100), espresso |-> Cents(50)]
extra_prices == [extra_shot |-> Cents(80), whipped_cream |-> Cents(50), syrup |-> Cents(50)]

\* rates in percent
discount_rates_flat == [bronze |-> 0, silver |-> 5, gold |-> 110]
discount_rates == [bronze |-> 0, silver |-> 5, gold |-> 10]

\* sum(extra_prices.get(extra, 0) for extra in extras)
SumExtrasOnce(extras) ==
  LET named == {extras[i] : i \in DOMAIN extras}
  IN (IF "extra_shot" \in named THEN extra_prices["extra_shot"] ELSE 0)
     + (IF "whipped_cream" \in named THEN extra_prices["whipped_cream"] ELSE 0)
     + (IF "syrup" \in named THEN extra_prices["syrup"] ELSE 0)
RECURSIVE SumExtras(_)
SumExtras(extras) ==
  IF extras = <<>> THEN 0
  ELSE Get(extra_prices, Head(extras), 0) + SumExtras(Tail(extras))

calculate_order_price(order, loyalty_tier) ==
  LET size_price == Subscript(base_prices, order.size)
  IN IF size_price.raised
     THEN size_price
     ELSE LET base_price == size_price.value + Get(drink_markups, order.drink_type, 0)
              extras_cost == SumExtras(order.extras)
              loyalty_discount ==
                ((base_price + extras_cost) * Get(discount_rates, loyalty_tier, 0)) \div 100
          IN Returned([order_id |-> order.order_id,
                       base_price |-> base_price,
                       extras_cost |-> extras_cost,
                       loyalty_discount |-> loyalty_discount,
                       final_total |-> base_price + extras_cost - loyalty_discount])

\* items_used of check_inventory
items_used_merged(order) ==
  << <<"coffee_beans", IF In("extra_shot", order.extras) THEN 30 ELSE 20>>,
     <<"milk", IF order.drink_type \in {"latte", "cappuccino"} THEN 200 ELSE 0>> >>
items_used_per_shot(order) ==
  LET shots == Cardinality({i \in DOMAIN order.extras : order.extras[i] = "extra_shot"})
  IN [i \in 1..(2 + shots) |->
        IF i = 1 THEN <<"coffee_beans", 20>>
        ELSE IF i = 2
        THEN <<"milk", IF order.drink_type \in {"latte", "cappuccino"} THEN 200 ELSE 0>>
        ELSE <<"coffee_beans", 10>>]
items_used_of(order) ==
  LET items_used ==
        << <<"coffee_beans", 20>>,
           <<"milk", IF order.drink_type \in {"latte", "cappuccino"} THEN 200 ELSE 0>> >>
  IN IF In("extra_shot", order.extras)
     THEN Append(items_used, <<"coffee_beans", 10>>)
     ELSE items_used

\* restock_needed of check_inventory
restock_needed_shots(order) ==
  IF order.drink_type = "espresso" \/ In("extra_shot", order.extras)
  THEN <<"coffee_beans">> ELSE <<>>
restock_needed_of(order) ==
  IF order.drink_type = "espresso" THEN <<"coffee_beans">> ELSE <<>>

check_inventory(order) ==
  [items_used |-> items_used_of(order), restock_needed |-> restock_needed_of(order)]

mock_current_points_high == 100 + 150
mock_current_points == 100

\* the tier of a points total
tier_of_inverted(total_points) ==
  IF total_points < 200 THEN "gold"
  ELSE IF total_points < 500 THEN "silver"
  ELSE "bronze"
tier_of(total_points) ==
  IF total_points > 500 THEN "gold"
  ELSE IF total_points > 200 THEN "silver"
  ELSE "bronze"

calculate_loyalty_points(order_price, customer_id) ==
  LET points_earned == int(order_price)
      total_points == mock_current_points + points_earned
  IN [customer_id |-> customer_id,
      points_earned |-> points_earned,
      total_points |-> total_points,
      current_tier |-> tier_of(total_points)]

\* ------------------------------------------------------------------- state
VARIABLES
  pc,                \* position of the running invocation
  order,             \* argument of process_order
  initial_loyalty,   \* process_pricing: result of the spend-0 lookup
  price_info,        \* process_pricing: result of calculate_order_price
  loyalty_info,      \* process_pricing: result of the final lookup
  inventory_update,  \* process_inventory: result of check_inventory
  result,            \* OrderSummary returned by process_order
  exc,               \* exception in flight / propagated to the caller
  log,               \* messages handed to the logger by this invocation
  calls,             \* task calls made by this invocation, in order
  ret,               \* outcome of a task invoked on its own
  branch,            \* positions of the two branches when they run interleaved
  past,              \* what earlier process_order invocations did (history)
  peer,              \* locals of a run of simple_workflow's process_complete_order
  travel             \* locals of a run of a local_travel_planner workflow

\* state outside the sequential run of process_order
ext == <<branch, past, peer, travel>>

vars ==
  <<pc, order, initial_loyalty, price_info, loyalty_info, inventory_update,
    result, exc, log, calls, ret, ext>>

NoPast == [earned |-> 0, customers |-> {}, failed |-> FALSE]

Ready == pc = "idle"
Finished == pc \in {"returned", "raised", "task_done"}

Init ==
  /\ pc = "idle"
  /\ order = None
  /\ initial_loyalty = None
  /\ price_info = None
  /\ loyalty_info = None
  /\ inventory_update = None
  /\ result = None
  /\ exc = None
  /\ log = <<>>
  /\ calls = <<>>
  /\ ret = None
  /\ branch = None
  /\ past = NoPast
  /\ peer = None
  /\ travel = None

\* ------------------------------------------------------------ process_order
\* the external collaborator invokes process_order(order)
StartProcessOrder(o) ==
  /\ Ready
  /\ pc' = "initial_loyalty"
  /\ order' = o
  /\ initial_loyalty' = None
  /\ price_info' = None
  /\ loyalty_info' = None
  /\ inventory_update' = None
  /\ result' = None
  /\ exc' = None
  /\ log' = <<>>
  /\ calls' = <<>>
  /\ ret' = None
  /\ UNCHANGED ext

\* process_pricing: initial_loyalty = calculate_loyalty_points(0, customer_id)
InitialLoyalty ==
  /\ pc = "initial_loyalty"
  /\ initial_loyalty' = calculate_loyalty_points(0, order.customer_id)
  /\ calls' = Append(calls, [task |-> "calculate_loyalty_points", order_price |-> 0])
  /\ pc' = "price"
  /\ UNCHANGED <<order, price_info, loyalty_info, inventory_update, result, exc, log, ret>>
  /\ UNCHANGED ext

PriceOrderDeferred ==
  /\ pc = "price"
  /\ LET r == calculate_order_price(order, initial_loyalty.current_tier)
     IN IF r.raised
        THEN /\ exc' = r.exc
             /\ pc' = "check_inventory"
             /\ UNCHANGED price_info
        ELSE /\ price_info' = r.value
             /\ pc' = "final_loyalty"
             /\ UNCHANGED exc
  /\ calls' = Append(calls, [task |-> "calculate_order_price",
                             loyalty_tier |-> initial_loyalty.current_tier])
  /\ UNCHANGED <<order, initial_loyalty, loyalty_info, inventory_update, result, log, ret>>
  /\ UNCHANGED ext

\* process_pricing: price_info = calculate_order_price(order, initial_loyalty.current_tier)
PriceOrder ==
  /\ pc = "price"
  /\ LET r == calculate_order_price(order, initial_loyalty.current_tier)
     IN IF r.raised
        THEN /\ exc' = r.exc
             /\ pc' = "except"
             /\ UNCHANGED price_info
        ELSE /\ price_info' = r.value
             /\ pc' = "final_loyalty"
             /\ UNCHANGED exc
  /\ calls' = Append(calls, [task |-> "calculate_order_price",
                             loyalty_tier |-> initial_loyalty.current_tier])
  /\ UNCHANGED <<order, initial_loyalty, loyalty_info, inventory_update, result, log, ret>>
  /\ UNCHANGED ext

\* the spend handed to the second lookup
FinalSpendBase(price) == price.base_price
FinalSpend(price) == price.final_total

FinalLoyaltyAccumulated ==
  /\ pc = "final_loyalty"
  /\ loyalty_info' =
       LET fresh == calculate_loyalty_points(FinalSpend(price_info), order.customer_id)
       IN [fresh EXCEPT !.total_points = @ + past.earned,
                        !.current_tier = tier_of(fresh.total_points + past.earned)]
  /\ calls' = Append(calls, [task |-> "calculate_loyalty_points",
                             order_price |-> FinalSpend(price_info)])
  /\ pc' = "check_inventory"
  /\ UNCHANGED <<order, initial_loyalty, price_info, inventory_update, result, exc, log, ret>>
  /\ UNCHANGED ext

\* process_pricing: final_loyalty = calculate_loyalty_points(price_info.final_total, customer_id)
FinalLoyalty ==
  /\ pc = "final_loyalty"
  /\ loyalty_info' = calculate_loyalty_points(FinalSpend(price_info), order.customer_id)
  /\ calls' = Append(calls, [task |-> "calculate_loyalty_points",
                             order_price |-> FinalSpend(price_info)])
  /\ pc' = "check_inventory"
  /\ UNCHANGED <<order, initial_loyalty, price_info, inventory_update, result, exc, log, ret>>
  /\ UNCHANGED ext

\* process_inventory: inventory_update = check_inventory(order)
CheckInventory ==
  /\ pc = "check_inventory"
  /\ inventory_update' = check_inventory(order)
  /\ calls' = Append(calls, [task |-> "check_inventory"])
  /\ pc' = "low_stock_alert"
  /\ UNCHANGED <<order, initial_loyalty, price_info, loyalty_info, result, exc, log, ret>>
  /\ UNCHANGED ext

LowStockAlertRaise ==
  /\ pc = "low_stock_alert"
  /\ IF inventory_update.restock_needed # <<>>
     THEN /\ log' = Append(log, [level |-> "WARNING",
                                 text |-> <<"Low stock alert for items: ",
                                            inventory_update.restock_needed>>])
          /\ exc' = [type |-> "RuntimeError", key |-> "low stock"]
          /\ pc' = "except"
     ELSE /\ pc' = "combine"
          /\ UNCHANGED <<log, exc>>
  /\ UNCHANGED <<order, initial_loyalty, price_info, loyalty_info, inventory_update,
                 result, calls, ret>>
  /\ UNCHANGED ext

\* process_inventory: warn when restock_needed is non-empty, then return
LowStockAlert ==
  /\ pc = "low_stock_alert"
  /\ log' = IF inventory_update.restock_needed # <<>>
            THEN Append(log, [level |-> "WARNING",
                              text |-> <<"Low stock alert for items: ",
                                         inventory_update.restock_needed>>])
            ELSE log
  /\ pc' = "combine"
  /\ UNCHANGED <<order, initial_loyalty, price_info, loyalty_info, inventory_update,
                 result, exc, calls, ret>>
  /\ UNCHANGED ext

base_wait == 5

inventory_status_of(update) ==
  IF update.restock_needed = <<>> THEN "READY_TO_PREPARE" ELSE "WARNING_LOW_STOCK"

extra_wait_distinct(o) == Cardinality({o.extras[i] : i \in DOMAIN o.extras})
extra_wait(o) == Len(o.extras) * 1

\* process_order: combine the stage results into the OrderSummary and return it
Combine ==
  /\ pc = "combine"
  /\ log' = Append(log, [level |-> "INFO", text |-> <<order, "CoffeeOrder">>])
  /\ result' = [order_id |-> order.order_id,
                price_info |-> price_info,
                loyalty_info |-> loyalty_info,
                inventory_status |-> inventory_status_of(inventory_update),
                status |-> "ACCEPTED",
                estimated_wait |-> base_wait + extra_wait(order)]
  /\ pc' = "returned"
  /\ UNCHANGED <<order, initial_loyalty, price_info, loyalty_info, inventory_update,
                 exc, calls, ret>>
  /\ UNCHANGED ext

ErrorMessage(o, e) ==
  [level |-> "ERROR", text |-> <<"Error processing order ", o.order_id, ": ", str(e)>>]

HandleExceptionSwallow ==
  /\ pc = "except"
  /\ log' = Append(log, ErrorMessage(order, exc))
  /\ result' = [order_id |-> order.order_id,
                price_info |-> price_info,
                loyalty_info |-> loyalty_info,
                inventory_status |-> "READY_TO_PREPARE",
                status |-> "FAILED",
                estimated_wait |-> base_wait]
  /\ pc' = "returned"
  /\ UNCHANGED <<order, initial_loyalty, price_info, loyalty_info, inventory_update,
                 exc, calls, ret>>
  /\ UNCHANGED ext

\* process_order: except Exception as e: logger.error(...); raise
HandleException ==
  /\ pc = "except"
  /\ log' = Append(log, ErrorMessage(order, exc))
  /\ pc' = "raised"
  /\ UNCHANGED <<order, initial_loyalty, price_info, loyalty_info, inventory_update,
                 result, exc, calls, ret>>
  /\ UNCHANGED ext

\* ------------------------------------------------- tasks invoked on their own
ResetInvocation ==
  /\ order' = None
  /\ initial_loyalty' = None
  /\ price_info' = None
  /\ loyalty_info' = None
  /\ inventory_update' = None
  /\ result' = None
  /\ exc' = None
  /\ log' = <<>>
  /\ calls' = <<>>

CallCalculateOrderPrice(o, tier) ==
  /\ Ready
  /\ ret' = [task |-> "calculate_order_price", order |-> o, loyalty_tier |-> tier,
             out |-> calculate_order_price(o, tier)]
  /\ pc' = "task_done"
  /\ ResetInvocation
  /\ UNCHANGED ext

CallCalculateLoyaltyPoints(spend, customer_id) ==
  /\ Ready
  /\ ret' = [task |-> "calculate_loyalty_points", order_price |-> spend,
             customer_id |-> customer_id,
             out |-> Returned(calculate_loyalty_points(spend, customer_id))]
  /\ pc' = "task_done"
  /\ ResetInvocation
  /\ UNCHANGED ext

CallCheckInventory(o) ==
  /\ Ready
  /\ ret' = [task |-> "check_inventory", order |-> o,
             out |-> Returned(check_inventory(o))]
  /\ pc' = "task_done"
  /\ ResetInvocation
  /\ UNCHANGED ext

\* the invocation is over: its locals are discarded, the next one starts afresh
Discard ==
  /\ Finished
  /\ pc' = "idle"
  /\ ret' = None
  /\ ResetInvocation
  /\ UNCHANGED ext

\* ------------------------------------------------------------ specification
Next ==
  \/ Ready /\ \E o \in CoffeeOrder : StartProcessOrder(o)
  \/ InitialLoyalty
  \/ PriceOrder
  \/ FinalLoyalty
  \/ CheckInventory
  \/ LowStockAlert
  \/ Combine
  \/ HandleException
  \/ Ready /\ \E o \in CoffeeOrder, tier \in TierNames : CallCalculateOrderPrice(o, tier)
  \/ Ready /\ \E spend \in Spends, c \in CustomerIds : CallCalculateLoyaltyPoints(spend, c)
  \/ Ready /\ \E o \in CoffeeOrder : CallCheckInventory(o)
  \/ Discard

Spec == Init /\ [][Next]_vars

\* ------------------------------------------- the workflows as functions
LowStockWarning(update) ==
  [level |-> "WARNING", text |-> <<"Low stock alert for items: ", update.restock_needed>>]

\* process_pricing(order): the pair (price_info, final_loyalty), or the error
process_pricing(o) ==
  LET initial == calculate_loyalty_points(0, o.customer_id)
      price == calculate_order_price(o, initial.current_tier)
  IN IF price.raised
     THEN price
     ELSE Returned(<<price.value,
                     calculate_loyalty_points(price.value.final_total, o.customer_id)>>)

\* process_inventory(order): the update and the messages logged
process_inventory(o) ==
  LET update == check_inventory(o)
  IN [value |-> update,
      log |-> IF update.restock_needed # <<>> THEN <<LowStockWarning(update)>> ELSE <<>>]

\* process_order(order): the summary or the error, and the messages logged
process_order(o) ==
  LET pricing == process_pricing(o)
  IN IF pricing.raised
     THEN [raised |-> TRUE, exc |-> pricing.exc, log |-> <<ErrorMessage(o, pricing.exc)>>]
     ELSE LET inventory == process_inventory(o)
          IN [raised |-> FALSE,
              value |-> [order_id |-> o.order_id,
                         price_info |-> pricing.value[1],
                         loyalty_info |-> pricing.value[2],
                         inventory_status |-> inventory_status_of(inventory.value),
                         status |-> "ACCEPTED",
                         estimated_wait |-> base_wait + extra_wait(o)],
              log |-> inventory.log \o <<[level |-> "INFO", text |-> <<o, "CoffeeOrder">>]>>]

\* ------------------------------------------------- one order after another
Min(a, b) == IF a < b THEN a ELSE b

\* the invocation of process_order is over; the history keeps what it did
Retire ==
  /\ pc \in {"returned", "raised"}
  /\ past' = [earned |-> IF pc = "returned"
                         THEN Min(MaxEarned, past.earned + loyalty_info.points_earned)
                         ELSE past.earned,
              customers |-> past.customers \cup {order.customer_id},
              failed |-> past.failed \/ pc = "raised"]
  /\ pc' = "idle"
  /\ ret' = None
  /\ ResetInvocation
  /\ UNCHANGED <<branch, peer, travel>>

NextOrders ==
  \/ Ready /\ \E o \in CoffeeOrder : StartProcessOrder(o)
  \/ InitialLoyalty
  \/ PriceOrder
  \/ FinalLoyalty
  \/ CheckInventory
  \/ LowStockAlert
  \/ Combine
  \/ HandleException
  \/ Retire

SpecOrders == Init /\ [][NextOrders]_vars

\* ---------------------------------------- the two branches run interleaved
\* The pricing/loyalty chain and the inventory check of process_order, each
\* with its own position, scheduled in any order and joined before the
\* combine step.
StartInterleaved(o) ==
  /\ Ready
  /\ pc' = "forked"
  /\ branch' = [chain |-> "initial_loyalty", inventory |-> "check_inventory"]
  /\ order' = o
  /\ initial_loyalty' = None
  /\ price_info' = None
  /\ loyalty_info' = None
  /\ inventory_update' = None
  /\ result' = None
  /\ exc' = None
  /\ log' = <<>>
  /\ calls' = <<>>
  /\ ret' = None
  /\ UNCHANGED <<past, peer, travel>>

ChainInitialLoyalty ==
  /\ pc = "forked"
  /\ branch.chain = "initial_loyalty"
  /\ initial_loyalty' = calculate_loyalty_points(0, order.customer_id)
  /\ calls' = Append(calls, [task |-> "calculate_loyalty_points", order_price |-> 0])
  /\ branch' = [branch EXCEPT !.chain = "price"]
  /\ UNCHANGED <<pc, order, price_info, loyalty_info, inventory_update, result, exc, log, ret, past, peer, travel>>

ChainPriceOrder ==
  /\ pc = "forked"
  /\ branch.chain = "price"
  /\ LET r == calculate_order_price(order, initial_loyalty.current_tier)
     IN IF r.raised
        THEN /\ exc' = r.exc
             /\ branch' = [branch EXCEPT !.chain = "raised"]
             /\ UNCHANGED price_info
        ELSE /\ price_info' = r.value
             /\ branch' = [branch EXCEPT !.chain = "final_loyalty"]
             /\ UNCHANGED exc
  /\ calls' = Append(calls, [task |-> "calculate_order_price",
                             loyalty_tier |-> initial_loyalty.current_tier])
  /\ UNCHANGED <<pc, order, initial_loyalty, loyalty_info, inventory_update, result, log, ret, past, peer, travel>>

ChainFinalLoyalty ==
  /\ pc = "forked"
  /\ branch.chain = "final_loyalty"
  /\ loyalty_info' = calculate_loyalty_points(FinalSpend(price_info), order.customer_id)
  /\ calls' = Append(calls, [task |-> "calculate_loyalty_points",
                             order_price |-> FinalSpend(price_info)])
  /\ branch' = [branch EXCEPT !.chain = "done"]
  /\ UNCHANGED <<pc, order, initial_loyalty, price_info, inventory_update, result, exc, log, ret, past, peer, travel>>

\* an inventory check that flags the restock only once the order is priced
BranchCheckInventoryPriced ==
  /\ pc = "forked"
  /\ branch.inventory = "check_inventory"
  /\ inventory_update' =
       [check_inventory(order) EXCEPT
          !.restock_needed = IF price_info # None THEN @ ELSE <<>>]
  /\ calls' = Append(calls, [task |-> "check_inventory"])
  /\ branch' = [branch EXCEPT !.inventory = "low_stock_alert"]
  /\ UNCHANGED <<pc, order, initial_loyalty, price_info, loyalty_info, result, exc, log, ret, past, peer, travel>>

BranchCheckInventory ==
  /\ pc = "forked"
  /\ branch.inventory = "check_inventory"
  /\ inventory_update' = check_inventory(order)
  /\ calls' = Append(calls, [task |-> "check_inventory"])
  /\ branch' = [branch EXCEPT !.inventory = "low_stock_alert"]
  /\ UNCHANGED <<pc, order, initial_loyalty, price_info, loyalty_info, result, exc, log, ret, past, peer, travel>>

BranchLowStockAlert ==
  /\ pc = "forked"
  /\ branch.inventory = "low_stock_alert"
  /\ log' = IF inventory_update.restock_needed # <<>>
            THEN Append(log, LowStockWarning(inventory_update))
            ELSE log
  /\ branch' = [branch EXCEPT !.inventory = "done"]
  /\ UNCHANGED <<pc, order, initial_loyalty, price_info, loyalty_info, inventory_update,
                 result, exc, calls, ret, past, peer, travel>>

\* both branches are over: combine, or handle the failure of the chain
Join ==
  /\ pc = "forked"
  /\ branch.chain \in {"done", "raised"}
  /\ branch.inventory = "done"
  /\ pc' = IF branch.chain = "raised" THEN "except" ELSE "combine"
  /\ branch' = None
  /\ UNCHANGED <<order, initial_loyalty, price_info, loyalty_info, inventory_update,
                 result, exc, log, calls, ret, past, peer, travel>>

NextInterleaved ==
  \/ Ready /\ \E o \in CoffeeOrder : StartInterleaved(o)
  \/ ChainInitialLoyalty
  \/ ChainPriceOrder
  \/ ChainFinalLoyalty
  \/ BranchCheckInventory
  \/ BranchLowStockAlert
  \/ Join
  \/ Combine
  \/ HandleException
  \/ Discard

SpecInterleaved == Init /\ [][NextInterleaved]_vars

\* ------------------------------- simple_workflow: process_complete_order
\* src/src/simple_workflow/workflows.py, the asynchronous pipeline
sw_base_prices == [small |-> Cents(350), medium |-> Cents(400), large |-> Cents(450)]
sw_drink_markups == [latte |-> Cents(100), cappuccino |-> Cents(100), espresso |-> Cents(50)]
sw_extra_prices == [extra_shot |-> Cents(80), whipped_cream |-> Cents(50), syrup |-> Cents(50)]
sw_discount_rates == [bronze |-> 0, silver |-> 5, gold |-> 10]

RECURSIVE SwSumExtras(_)
SwSumExtras(extras) ==
  IF extras = <<>> THEN 0
  ELSE Get(sw_extra_prices, Head(extras), 0) + SwSumExtras(Tail(extras))

sw_calculate_order_price(o, loyalty_tier) ==
  LET size_price == Subscript(sw_base_prices, o.size)
  IN IF size_price.raised
     THEN size_price
     ELSE LET base_price == size_price.value + Get(sw_drink_markups, o.drink_type, 0)
              extras_cost == SwSumExtras(o.extras)
              loyalty_discount ==
                ((base_price + extras_cost) * Get(sw_discount_rates, loyalty_tier, 0)) \div 100
          IN Returned([order_id |-> o.order_id,
                       base_price |-> base_price,
                       extras_cost |-> extras_cost,
                       loyalty_discount |-> loyalty_discount,
                       final_total |-> base_price + extras_cost - loyalty_discount])

check_and_update_inventory_milk(o) ==
  [items_used |->
     << <<"coffee_beans", 20>>,
        <<"milk", IF o.drink_type \in {"latte", "cappuccino"} THEN 200 ELSE 0>> >>
     \o (IF In("extra_shot", o.extras) THEN << <<"coffee_beans", 10>> >> ELSE <<>>),
   restock_needed |->
     IF o.drink_type = "espresso" THEN <<"coffee_beans">>
     ELSE IF o.drink_type = "latte" THEN <<"milk">>
     ELSE <<>>]
check_and_update_inventory(o) ==
  [items_used |->
     << <<"coffee_beans", 20>>,
        <<"milk", IF o.drink_type \in {"latte", "cappuccino"} THEN 200 ELSE 0>> >>
     \o (IF In("extra_shot", o.extras) THEN << <<"coffee_beans", 10>> >> ELSE <<>>),
   restock_needed |-> IF o.drink_type = "espresso" THEN <<"coffee_beans">> ELSE <<>>]

sw_mock_current_points == 100

sw_calculate_loyalty_points(order_price, customer_id) ==
  LET points_earned == int(order_price)
      total_points == sw_mock_current_points + points_earned
      tier == IF total_points > 500 THEN "gold"
              ELSE IF total_points > 200 THEN "silver"
              ELSE "bronze"
  IN [customer_id |-> customer_id,
      points_earned |-> points_earned,
      total_points |-> total_points,
      current_tier |-> tier]

\* the locals of the sequential run of process_order
own ==
  <<pc, order, initial_loyalty, price_info, loyalty_info, inventory_update,
    result, exc, log, calls, ret>>

\* the same order is handed to process_order and to process_complete_order
StartBoth(o) ==
  /\ Ready
  /\ pc' = "initial_loyalty"
  /\ order' = o
  /\ initial_loyalty' = None
  /\ price_info' = None
  /\ loyalty_info' = None
  /\ inventory_update' = None
  /\ result' = None
  /\ exc' = None
  /\ log' = <<>>
  /\ calls' = <<>>
  /\ ret' = None
  /\ peer' = [pc |-> "initial_loyalty", initial_loyalty |-> None, price_info |-> None,
              loyalty_info |-> None, inventory_update |-> None, result |-> None,
              exc |-> None, log |-> <<>>]
  /\ UNCHANGED <<branch, past, travel>>

PeerAt(position) == peer # None /\ peer.pc = position

\* process_order_pricing: initial_loyalty = calculate_loyalty_points(0, customer_id)
AsyncInitialLoyalty ==
  /\ PeerAt("initial_loyalty")
  /\ peer' = [peer EXCEPT !.initial_loyalty = sw_calculate_loyalty_points(0, order.customer_id),
                          !.pc = "price"]
  /\ UNCHANGED <<own, branch, past, travel>>

\* process_order_pricing: price_info = calculate_order_price(order, tier)
AsyncPriceOrder ==
  /\ PeerAt("price")
  /\ LET r == sw_calculate_order_price(order, peer.initial_loyalty.current_tier)
     IN peer' = IF r.raised
                THEN [peer EXCEPT !.exc = r.exc, !.pc = "except"]
                ELSE [peer EXCEPT !.price_info = r.value, !.pc = "final_loyalty"]
  /\ UNCHANGED <<own, branch, past, travel>>

\* process_order_pricing: final_loyalty = calculate_loyalty_points(final_total, ..)
AsyncFinalLoyalty ==
  /\ PeerAt("final_loyalty")
  /\ peer' = [peer EXCEPT
                !.loyalty_info =
                   sw_calculate_loyalty_points(peer.price_info.final_total, order.customer_id),
                !.pc = "sleep"]
  /\ UNCHANGED <<own, branch, past, travel>>

\* check_and_update_inventory: await asyncio.sleep(0.1)
AsyncSleep ==
  /\ PeerAt("sleep")
  /\ peer' = [peer EXCEPT !.pc = "check_inventory"]
  /\ UNCHANGED <<own, branch, past, travel>>

\* manage_inventory: inventory_update = await check_and_update_inventory(order)
AsyncCheckInventory ==
  /\ PeerAt("check_inventory")
  /\ peer' = [peer EXCEPT !.inventory_update = check_and_update_inventory(order),
                          !.pc = "low_stock_alert"]
  /\ UNCHANGED <<own, branch, past, travel>>

\* manage_inventory: warn when restock_needed is non-empty, then return
AsyncLowStockAlert ==
  /\ PeerAt("low_stock_alert")
  /\ peer' = [peer EXCEPT
                !.log = IF peer.inventory_update.restock_needed # <<>>
                        THEN Append(@, [level |-> "WARNING",
                                        text |-> <<"Low stock alert for items: ",
                                                   peer.inventory_update.restock_needed>>])
                        ELSE @,
                !.pc = "combine"]
  /\ UNCHANGED <<own, branch, past, travel>>

\* process_complete_order: build the OrderSummary and return it
AsyncCombine ==
  /\ PeerAt("combine")
  /\ peer' = [peer EXCEPT
                !.result =
                   [order_id |-> order.order_id,
                    price_info |-> peer.price_info,
                    loyalty_info |-> peer.loyalty_info,
                    inventory_status |->
                      IF peer.inventory_update.restock_needed = <<>>
                      THEN "READY_TO_PREPARE" ELSE "WARNING_LOW_STOCK",
                    status |-> "ACCEPTED",
                    estimated_wait |-> 5 + Len(order.extras) * 1],
                !.pc = "returned"]
  /\ UNCHANGED <<own, branch, past, travel>>

\* process_complete_order: except Exception as e: logger.error(...); raise
AsyncHandleException ==
  /\ PeerAt("except")
  /\ peer' = [peer EXCEPT
                !.log = Append(@, [level |-> "ERROR",
                                   text |-> <<"Error processing order ", order.order_id,
                                              ": ", str(peer.exc)>>]),
                !.pc = "raised"]
  /\ UNCHANGED <<own, branch, past, travel>>

\* both invocations are over: their locals are discarded
DiscardBoth ==
  /\ pc \in {"returned", "raised"}
  /\ peer # None
  /\ peer.pc \in {"returned", "raised"}
  /\ pc' = "idle"
  /\ ret' = None
  /\ ResetInvocation
  /\ peer' = None
  /\ UNCHANGED <<branch, past, travel>>

NextBoth ==
  \/ Ready /\ \E o \in CoffeeOrder : StartBoth(o)
  \/ InitialLoyalty
  \/ PriceOrder
  \/ FinalLoyalty
  \/ CheckInventory
  \/ LowStockAlert
  \/ Combine
  \/ HandleException
  \/ AsyncInitialLoyalty
  \/ AsyncPriceOrder
  \/ AsyncFinalLoyalty
  \/ AsyncSleep
  \/ AsyncCheckInventory
  \/ AsyncLowStockAlert
  \/ AsyncCombine
  \/ AsyncHandleException
  \/ DiscardBoth

SpecBoth == Init /\ [][NextBoth]_vars

\* ------------------------------------------------- local_travel_planner
\* src/src/local_travel_planner/tasks.py and workflows.py.  Python values carry
\* their type so that truthiness (`if not x`) is computed as Python does.
PyNone == [t |-> "none"]
PyUnset == [t |-> "unset"]
PyStr(tokens) == [t |-> "str", v |-> tokens]
PyText(length) == [t |-> "text", len |-> length]
PyFloat(x) == [t |-> "float", v |-> x]
PyDict(f) == [t |-> "dict", v |-> f]
PyList(items) == [t |-> "list", v |-> items]

\* bool(x)
Truthy(x) ==
  CASE x.t = "none" -> FALSE
    [] x.t = "str" -> x.v # <<>>
    [] x.t = "text" -> x.len > 0
    [] x.t = "float" -> x.v # 0
    [] x.t = "dict" -> DOMAIN x.v # {}
    [] x.t = "list" -> x.v # <<>>

Message(level, text) == [level |-> level, text |-> text]

Destinations == {"", "Delhi"}
DayCounts == -1..MaxDays

\* what the remote services answer
HttpFailures == {"request_error", "http_status_error"}
WikiResponses == HttpFailures \cup {"summary", "no_summary", "malformed"}
GeoResponses == HttpFailures \cup {"found", "equator", "no_match", "malformed"}
WeatherResponses ==
  {[kind |-> k, n |-> 0] : k \in HttpFailures \cup {"no_daily", "daily_without_time"}}
  \cup {[kind |-> k, n |-> n] : k \in {"daily", "daily_without_temperature"}, n \in {0, 7}}
RedditResponses == {"request_error", "malformed"} \cup {"posts"}
CommentResponses == HttpFailures \cup {"comments", "no_comments"}
ItineraryResponses == {"openai_error", "blank", "short", "long"}

HTTPStatusError == [type |-> "HTTPStatusError"]

\* get_wikipedia_info(destination)
get_wikipedia_info(destination, response) ==
  CASE response = "http_status_error" -> Raised(HTTPStatusError) @@ [log |-> <<>>]
    [] response = "request_error" ->
         Returned(<<PyNone, PyNone>>)
           @@ [log |-> <<Message("ERROR", "Error fetching Wikipedia data")>>]
    [] response = "malformed" ->
         Returned(<<PyNone, PyNone>>)
           @@ [log |-> <<Message("ERROR", "Unexpected response structure from Wikipedia API.")>>]
    [] response = "no_summary" ->
         Returned(<<PyDict(<<>>), PyDict([parse |-> "other"])>>) @@ [log |-> <<>>]
    [] response = "summary" ->
         Returned(<<PyDict([Summary |-> "html"]), PyDict([parse |-> "text"])>>)
           @@ [log |-> <<>>]

\* get_geo_coordinates(destination)
get_geo_coordinates(destination, response) ==
  CASE response = "http_status_error" -> Raised(HTTPStatusError) @@ [log |-> <<>>]
    [] response = "request_error" ->
         Returned(<<PyNone, PyNone>>)
           @@ [log |-> <<Message("ERROR", "Error fetching geocoding data")>>]
    [] response = "malformed" ->
         Returned(<<PyNone, PyNone>>)
           @@ [log |-> <<Message("ERROR", "Error processing geocoding data")>>]
    [] response = "no_match" ->
         Returned(<<PyNone, PyNone>>)
           @@ [log |-> <<Message("ERROR", "No geocoding results found")>>]
    [] response = "equator" -> Returned(<<PyFloat(0), PyFloat(36)>>) @@ [log |-> <<>>]
    [] response = "found" -> Returned(<<PyFloat(33), PyFloat(-112)>>) @@ [log |-> <<>>]

Unavailable == PyStr(<<"Weather forecast is currently unavailable.">>)

\* get_weather_forecast(lat, lon, days)
get_weather_forecast(lat, lon, days, response) ==
  LET shown == IF days < response.n THEN days ELSE response.n
      key_error ==
        Returned(<<Unavailable, PyNone>>)
          @@ [log |-> <<Message("ERROR", "Unexpected response structure from Open-Meteo API")>>]
  IN CASE response.kind = "http_status_error" -> Raised(HTTPStatusError) @@ [log |-> <<>>]
       [] response.kind = "request_error" ->
            Returned(<<Unavailable, PyNone>>)
              @@ [log |-> <<Message("ERROR", "Error fetching weather data from Open-Meteo")>>]
       [] response.kind = "no_daily" ->
            Returned(<<Unavailable, PyNone>>)
              @@ [log |-> <<Message("ERROR", "No daily weather data available from Open-Meteo.")>>]
       [] response.kind = "daily_without_time" -> key_error
       [] response.kind = "daily_without_temperature" /\ shown >= 1 -> key_error
       [] OTHER ->
            Returned(<<PyStr(<<"3-Day Weather Forecast:">>
                               \o [i \in 1..(IF shown > 0 THEN shown ELSE 0) |-> "day"]),
                       PyDict([daily |-> response.n])>>)
              @@ [log |-> <<>>]

\* get_reddit_posts(destination): every exception is caught
get_reddit_posts(destination, response, count) ==
  CASE response = "request_error" ->
         Returned(<<PyList(<<>>), PyNone>>)
           @@ [log |-> <<Message("ERROR", "Error fetching Reddit posts")>>]
    [] response = "malformed" ->
         Returned(<<PyList(<<>>), PyNone>>)
           @@ [log |-> <<Message("ERROR", "Unexpected error fetching Reddit posts")>>]
    [] response = "posts" ->
         Returned(<<PyList([i \in 1..count |-> [permalink |-> "/r/travel/post"]]),
                    PyDict([data |-> count])>>)
           @@ [log |-> <<>>]

\* get_reddit_comments(permalink)
get_reddit_comments(permalink, response) ==
  CASE response = "http_status_error" -> Raised(HTTPStatusError) @@ [log |-> <<>>]
    [] response = "request_error" ->
         Returned(<<>>) @@ [log |-> <<Message("ERROR", "Error fetching comments from Reddit")>>]
    [] response = "no_comments" -> Returned(<<>>) @@ [log |-> <<>>]
    [] response = "comments" -> Returned(<<"comment">>) @@ [log |-> <<>>]

\* generate_itinerary(wiki_info, reddit_posts, weather_info, destination)
generate_itinerary(wiki_info, reddit_posts, weather_info, destination, response) ==
  CASE response = "openai_error" ->
         [value |-> PyNone, log |-> <<Message("ERROR", "OpenAI API error")>>]
    [] response = "blank" -> [value |-> PyText(0), log |-> <<>>]
    [] response = "short" -> [value |-> PyText(400), log |-> <<>>]
    [] response = "long" -> [value |-> PyText(1500), log |-> <<>>]

NewTravel(workflow, destination, days, position) ==
  [workflow |-> workflow, pc |-> position, destination |-> destination, days |-> days,
   wiki_info |-> PyUnset, lat |-> PyUnset, lon |-> PyUnset,
   weather_info |-> PyUnset, weather_raw |-> PyUnset,
   reddit_posts |-> PyUnset, log |-> <<>>, calls |-> <<>>, ret |-> None]

TravelAt(workflow, position) ==
  travel # None /\ travel.workflow = workflow /\ travel.pc = position

\* the workflow returns value / raises e, after logging messages
TravelReturn(t, messages, value) ==
  [t EXCEPT !.pc = "done", !.log = @ \o messages, !.ret = Returned(value)]
TravelRaise(t, messages, e) ==
  [t EXCEPT !.pc = "done", !.log = @ \o messages, !.ret = Raised(e)]

TravelFrame == UNCHANGED <<own, branch, past, peer>>

\* --------------------------------------------------------------- get_weather
StartGetWeather(destination, days) ==
  /\ Ready
  /\ travel = None
  /\ travel' = NewTravel("get_weather", destination, days, "destination")
  /\ TravelFrame

GwDestination ==
  /\ TravelAt("get_weather", "destination")
  /\ travel' = IF travel.destination = ""
               THEN TravelRaise(travel, <<Message("ERROR", "destination cannot be empty.")>>,
                                [type |-> "ValueError"])
               ELSE [travel EXCEPT !.pc = "geo"]
  /\ TravelFrame

\* lat, lon = get_geo_coordinates(destination), then `if not lat or not lon`
AfterGeo(t, r, next) ==
  IF r.raised
  THEN TravelRaise([t EXCEPT !.calls = Append(@, "get_geo_coordinates")], r.log, r.exc)
  ELSE LET got == [t EXCEPT !.calls = Append(@, "get_geo_coordinates"),
                            !.lat = r.value[1], !.lon = r.value[2]]
       IN IF ~Truthy(r.value[1]) \/ ~Truthy(r.value[2])
          THEN TravelReturn(got,
                 r.log \o <<Message("ERROR",
                                    "Could not retrieve geographical coordinates. Exiting.")>>,
                 PyNone)
          ELSE [got EXCEPT !.pc = next,
                           !.log = @ \o r.log
                                     \o <<Message("INFO", "Geographical coordinates retrieved")>>]

GwGeo(response) ==
  /\ TravelAt("get_weather", "geo")
  /\ travel' = AfterGeo(travel, get_geo_coordinates(travel.destination, response), "days")
  /\ TravelFrame

GwDays ==
  /\ TravelAt("get_weather", "days")
  /\ travel' = IF travel.days < 0
               THEN TravelRaise(travel, <<Message("ERROR", "days cannot be negative.")>>,
                                [type |-> "ValueError"])
               ELSE [travel EXCEPT !.pc = "forecast"]
  /\ TravelFrame

\* weather_info, weather_raw = get_weather_forecast(lat, lon, days)
AfterForecast(t, r) ==
  IF r.raised
  THEN TravelRaise([t EXCEPT !.calls = Append(@, "get_weather_forecast")], r.log, r.exc)
  ELSE [t EXCEPT !.calls = Append(@, "get_weather_forecast"),
                 !.weather_info = r.value[1], !.weather_raw = r.value[2],
                 !.log = @ \o r.log, !.pc = "weather_check"]

GwForecast(response) ==
  /\ TravelAt("get_weather", "forecast")
  /\ travel' = AfterForecast(travel,
                 get_weather_forecast(travel.lat, travel.lon, travel.days, response))
  /\ TravelFrame

CouldNotRetrieveWeather ==
  Message("ERROR", "Could not retrieve weather information. Exiting.")

\* if not weather_info: log the error and return
GwWeatherCheck ==
  /\ TravelAt("get_weather", "weather_check")
  /\ travel' = IF ~Truthy(travel.weather_info)
               THEN TravelReturn(travel, <<CouldNotRetrieveWeather>>, PyNone)
               ELSE [travel EXCEPT !.pc = "stamp"]
  /\ TravelFrame

\* random_time = random.randint(10, days * 1000); weather_raw["time"] = random_time
GwStamp(random_time) ==
  /\ TravelAt("get_weather", "stamp")
  /\ travel' =
       IF travel.days * 1000 < 10
       THEN TravelRaise(travel, <<>>, [type |-> "ValueError"])
       ELSE IF travel.weather_raw.t # "dict"
       THEN TravelRaise(travel, <<>>, [type |-> "TypeError"])
       ELSE TravelReturn(travel, <<>>,
              PyDict(travel.weather_raw.v @@ [time |-> random_time]))
  /\ random_time \in {10, travel.days * 1000}
  /\ TravelFrame

\* ------------------------------------------------------ generate_travel_plan
StartGenerateTravelPlan(destination, days) ==
  /\ Ready
  /\ travel = None
  /\ travel' = [NewTravel("generate_travel_plan", destination, days, "wiki")
                  EXCEPT !.log = <<Message("INFO", "Generating travel plan")>>]
  /\ TravelFrame

TpWiki(response) ==
  /\ TravelAt("generate_travel_plan", "wiki")
  /\ LET r == get_wikipedia_info(travel.destination, response)
         called == [travel EXCEPT !.calls = Append(@, "get_wikipedia_info")]
     IN travel' =
          IF r.raised
          THEN TravelRaise(called, r.log, r.exc)
          ELSE IF ~Truthy(r.value[1])
          THEN TravelReturn([called EXCEPT !.wiki_info = r.value[1]],
                 r.log \o <<Message("ERROR",
                                    "Could not retrieve Wikipedia information. Exiting.")>>,
                 PyNone)
          ELSE [called EXCEPT !.wiki_info = r.value[1], !.pc = "geo",
                              !.log = @ \o r.log
                                        \o <<Message("INFO", "Wikipedia Information Retrieved.")>>]
  /\ TravelFrame

TpGeo(response) ==
  /\ TravelAt("generate_travel_plan", "geo")
  /\ travel' = AfterGeo(travel, get_geo_coordinates(travel.destination, response), "forecast")
  /\ TravelFrame

TpForecast(response) ==
  /\ TravelAt("generate_travel_plan", "forecast")
  /\ travel' = AfterForecast(travel,
                 get_weather_forecast(travel.lat, travel.lon, travel.days, response))
  /\ TravelFrame

\* if not weather_info: log the error and return
TpWeatherCheck ==
  /\ TravelAt("generate_travel_plan", "weather_check")
  /\ travel' = IF ~Truthy(travel.weather_info)
               THEN TravelReturn(travel, <<CouldNotRetrieveWeather>>, PyNone)
               ELSE [travel EXCEPT
                       !.pc = "reddit",
                       !.log = @ \o <<Message("INFO", "Weather Information Retrieved."),
                                      Message("INFO", "Travel Plan"),
                                      Message("INFO", "Fetching recent Reddit discussions")>>]
  /\ TravelFrame

TpReddit(response, count) ==
  /\ TravelAt("generate_travel_plan", "reddit")
  /\ LET r == get_reddit_posts(travel.destination, response, count)
         posts == r.value[1]
     IN travel' =
          [travel EXCEPT
             !.calls = Append(@, "get_reddit_posts"),
             !.reddit_posts = posts,
             !.log = @ \o r.log
                       \o (IF ~Truthy(posts)
                           THEN <<Message("WARNING", "Could not retrieve Reddit posts.")>>
                           ELSE <<Message("INFO", "Retrieved Reddit posts"),
                                  Message("INFO", "Fetching comments for each Reddit post")>>),
             !.pc = IF Truthy(posts) THEN "comments" ELSE "itinerary"]
  /\ TravelFrame

\* for each post: post["comments"] = await get_reddit_comments(permalink, limit=3)
TpComments(response) ==
  /\ TravelAt("generate_travel_plan", "comments")
  /\ LET r == get_reddit_comments("/r/travel/post", response)
         called == [travel EXCEPT !.calls = Append(@, "get_reddit_comments")]
     IN travel' =
          IF r.raised
          THEN TravelRaise(called, r.log, r.exc)
          ELSE [called EXCEPT
                  !.reddit_posts =
                     PyList([i \in DOMAIN travel.reddit_posts.v |->
                               travel.reddit_posts.v[i] @@ [comments |-> r.value]]),
                  !.log = @ \o r.log
                            \o <<Message("INFO", "Comments Retrieved."),
                                 Message("INFO", "=== Reddit Response ===")>>,
                  !.pc = "itinerary"]
  /\ TravelFrame

\* itinerary = generate_itinerary(...); return the plan, itinerary[:1000]
TpItinerary(response) ==
  /\ TravelAt("generate_travel_plan", "itinerary")
  /\ LET r == generate_itinerary(travel.wiki_info, travel.reddit_posts,
                                 travel.weather_info, travel.destination, response)
         called == [travel EXCEPT !.calls = Append(@, "generate_itinerary")]
     IN travel' =
          IF ~Truthy(r.value)
          THEN TravelReturn(called,
                 r.log \o <<Message("ERROR", "Could not generate itinerary. Exiting.")>>,
                 PyNone)
          ELSE TravelReturn(called, r.log \o <<Message("INFO", "Travel Plan")>>,
                 PyDict([destination |-> travel.destination,
                         days |-> travel.days,
                         itinerary |-> PyText(IF r.value.len < 1000
                                              THEN r.value.len ELSE 1000)]))
  /\ TravelFrame

\* the workflow is over: its locals are discarded
TravelDiscard ==
  /\ travel # None
  /\ travel.pc = "done"
  /\ travel' = None
  /\ TravelFrame

NextTravel ==
  \/ Ready /\ \E d \in Destinations, n \in DayCounts : StartGetWeather(d, n)
  \/ GwDestination
  \/ \E response \in GeoResponses : GwGeo(response)
  \/ GwDays
  \/ \E response \in WeatherResponses : GwForecast(response)
  \/ GwWeatherCheck
  \/ \E random_time \in {10} \cup {n * 1000 : n \in DayCounts} : GwStamp(random_time)
  \/ Ready /\ \E d \in Destinations, n \in DayCounts : StartGenerateTravelPlan(d, n)
  \/ \E response \in WikiResponses : TpWiki(response)
  \/ \E response \in GeoResponses : TpGeo(response)
  \/ \E response \in WeatherResponses : TpForecast(response)
  \/ TpWeatherCheck
  \/ \E response \in RedditResponses, count \in 0..MaxPosts : TpReddit(response, count)
  \/ \E response \in CommentResponses : TpComments(response)
  \/ \E response \in ItineraryResponses : TpItinerary(response)
  \/ TravelDiscard

SpecTravel == Init /\ [][NextTravel]_vars

\* ----------------------------------------------------------------- claims
InProcessOrder == pc \notin {"idle", "task_done"}
PriceCalled == pc = "task_done" /\ ret.task = "calculate_order_price"
LoyaltyCalled == pc = "task_done" /\ ret.task = "calculate_loyalty_points"
InventoryCalled == pc = "task_done" /\ ret.task = "check_inventory"

ValidSizes == {"small", "medium", "large"}
Occurrences(x, list) == Cardinality({i \in DOMAIN list : list[i] = x})

ExpectedSizePrice(size) ==
  CASE size = "small" -> Cents(350) [] size = "medium" -> Cents(400) [] size = "large" -> Cents(450)
ExpectedMarkup(drink_type) ==
  CASE drink_type \in {"latte", "cappuccino"} -> Cents(100)
    [] drink_type = "espresso" -> Cents(50)
    [] OTHER -> 0
ExpectedExtrasCost(extras) ==
  Cents(80) * Occurrences("extra_shot", extras)
  + Cents(50) * Occurrences("whipped_cream", extras)
  + Cents(50) * Occurrences("syrup", extras)
ExpectedRatePercent(tier) ==
  CASE tier = "silver" -> 5 [] tier = "gold" -> 10 [] OTHER -> 0

PriceAsClaimed(o, tier, price) ==
  /\ price.base_price = ExpectedSizePrice(o.size) + ExpectedMarkup(o.drink_type)
  /\ price.extras_cost = ExpectedExtrasCost(o.extras)
  /\ 100 * price.loyalty_discount
       = (price.base_price + price.extras_cost) * ExpectedRatePercent(tier)
  /\ price.final_total = price.base_price + price.extras_cost - price.loyalty_discount

\* C1: for a small, medium or large order, whatever the drink type, the extras
\* and the tier string, calculate_order_price returns without error, with
\* base_price = size price + drink markup (0 when unrecognized), extras_cost =
\* the sum of the price of every occurrence in extras (0 when unrecognized),
\* loyalty_discount = (base_price + extras_cost) * rate(tier) with rate 0
\* outside bronze/silver/gold, and final_total = base + extras - discount.
C1_PriceBreakdown ==
  /\ (PriceCalled /\ ret.order.size \in ValidSizes) =>
       /\ ~ret.out.raised
       /\ PriceAsClaimed(ret.order, ret.loyalty_tier, ret.out.value)
  /\ (InProcessOrder /\ price_info # None) =>
       PriceAsClaimed(order, calls[2].loyalty_tier, price_info)

C1_Witness ==
  /\ PriceCalled
  /\ ret.order.size = "large"
  /\ ret.order.drink_type = "mocha"
  /\ ret.order.extras = <<"extra_shot", "extra_shot">>
  /\ ret.loyalty_tier = "platinum"
  /\ ~ret.out.raised
  /\ ret.out.value.final_total = Cents(610)

\* C2: calculate_order_price on an order whose size is not small, medium or
\* large fails with an error instead of pricing it with a default, and
\* process_order on such an order returns no OrderSummary: it ends by raising
\* that error to its caller.
C2_UnknownSizeFails ==
  /\ (PriceCalled /\ ret.order.size \notin ValidSizes) =>
       /\ ret.out.raised
       /\ ret.out.exc.type = "KeyError"
       /\ ret.out.exc.key = ret.order.size
  /\ (InProcessOrder /\ order.size \notin ValidSizes) =>
       /\ result = None
       /\ price_info = None
       /\ pc # "returned"
       /\ pc = "raised" => (exc # None /\ exc.type = "KeyError" /\ exc.key = order.size)

C2_Witness ==
  /\ pc = "raised"
  /\ order.size = "venti"
  /\ result = None
  /\ exc.key = "venti"

ErrorEntries == {i \in DOMAIN log : log[i].level = "ERROR"}

\* C3: when a stage called by process_order raises, process_order logs exactly
\* one error message containing the order's identifier and the failure's
\* message, then re-raises that same failure; it never returns an OrderSummary
\* after a stage has raised.
C3_StageFailurePropagates ==
  InProcessOrder =>
    /\ exc # None => result = None /\ pc \in {"except", "raised"}
    /\ pc = "except" => ErrorEntries = {}
    /\ pc = "raised" =>
         /\ Cardinality(ErrorEntries) = 1
         /\ \A i \in ErrorEntries :
              /\ log[i].text[2] = order.order_id
              /\ log[i].text[4] = <<"'", exc.key, "'">>
         /\ exc = [type |-> "KeyError", key |-> order.size]
    /\ result # None => exc = None /\ ErrorEntries = {}

C3_Witness ==
  /\ pc = "raised"
  /\ order.order_id = "CO124"
  /\ order.drink_type = "espresso"
  /\ Len(log) = 1
  /\ log[1].level = "ERROR"

\* C4: process_pricing makes its three calls in the order loyalty lookup with
\* spend 0, pricing, loyalty lookup with spend = final_total; the tier handed
\* to calculate_order_price is the one the spend-0 lookup returned, and the
\* LoyaltyPoints of the summary is the one computed from final_total.
C4_PricingOrder ==
  InProcessOrder =>
    /\ initial_loyalty # None => Len(calls) >= 1
    /\ (price_info # None \/ exc # None) => Len(calls) >= 2
    /\ loyalty_info # None => Len(calls) >= 3
    /\ Len(calls) >= 1 =>
         /\ calls[1].task = "calculate_loyalty_points"
         /\ calls[1].order_price = 0
         /\ initial_loyalty.total_points = 100
    /\ Len(calls) >= 2 =>
         /\ calls[2].task = "calculate_order_price"
         /\ calls[2].loyalty_tier = initial_loyalty.current_tier
    /\ Len(calls) >= 3 =>
         /\ calls[3].task = "calculate_loyalty_points"
         /\ calls[3].order_price = price_info.final_total
         /\ loyalty_info.points_earned * Scale <= price_info.final_total
         /\ price_info.final_total < (loyalty_info.points_earned + 1) * Scale
    /\ result # None =>
         /\ result.loyalty_info = loyalty_info
         /\ result.price_info = price_info

C4_Witness ==
  /\ pc = "returned"
  /\ Len(calls) = 4
  /\ calls[3].order_price = Cents(630)
  /\ result.loyalty_info.total_points = 106

\* C5: for every spend, calculate_loyalty_points returns points_earned = the
\* spend truncated to an integer, total_points = 100 + points_earned, and
\* current_tier = gold above 500, silver above 200 up to 500, bronze otherwise
\* (200 bronze, 201 silver, 500 silver, 501 gold).
C5_LoyaltyPoints ==
  LoyaltyCalled =>
    LET spend == ret.order_price
        out == ret.out.value
    IN /\ ~ret.out.raised
       /\ spend >= 0 =>
            /\ out.points_earned * Scale <= spend
            /\ spend < (out.points_earned + 1) * Scale
       /\ spend < 0 =>
            /\ (out.points_earned - 1) * Scale < spend
            /\ spend <= out.points_earned * Scale
       /\ out.total_points = 100 + out.points_earned
       /\ out.current_tier =
            (CASE out.total_points > 500 -> "gold"
               [] out.total_points > 200 /\ out.total_points <= 500 -> "silver"
               [] OTHER -> "bronze")
       /\ out.total_points = 200 => out.current_tier = "bronze"
       /\ out.total_points = 201 => out.current_tier = "silver"
       /\ out.total_points = 500 => out.current_tier = "silver"
       /\ out.total_points = 501 => out.current_tier = "gold"
       /\ out.customer_id = ret.customer_id

C5_Witness ==
  /\ LoyaltyCalled
  /\ ret.order_price = 400 * Scale + (Scale - 1)
  /\ ret.out.value.total_points = 500
  /\ ret.out.value.current_tier = "silver"

PriceInRange(price) ==
  /\ price.final_total >= 0
  /\ price.loyalty_discount >= 0
  /\ price.loyalty_discount <= price.base_price + price.extras_cost

\* C6: every OrderPrice produced by calculate_order_price, hence every
\* price_info of a returned OrderSummary, has final_total >= 0 and a
\* loyalty_discount between 0 and base_price + extras_cost.
C6_PriceNonNegative ==
  /\ (PriceCalled /\ ~ret.out.raised) => PriceInRange(ret.out.value)
  /\ (InProcessOrder /\ price_info # None) => PriceInRange(price_info)
  /\ (InProcessOrder /\ result # None) => PriceInRange(result.price_info)

C6_Witness ==
  /\ PriceCalled
  /\ ret.loyalty_tier = "gold"
  /\ ~ret.out.raised
  /\ ret.out.value.loyalty_discount > 0
  /\ ret.out.value.final_total > 0

TierRank(tier) == CASE tier = "bronze" -> 0 [] tier = "silver" -> 1 [] tier = "gold" -> 2

\* C7: for every customer and every non-negative final_total, the tier of
\* calculate_loyalty_points(final_total, customer) is never lower, in the order
\* bronze < silver < gold, than the tier of calculate_loyalty_points(0, customer).
C7_TierNeverLower ==
  /\ (LoyaltyCalled /\ ret.order_price >= 0) =>
       TierRank(ret.out.value.current_tier)
         >= TierRank(calculate_loyalty_points(0, ret.customer_id).current_tier)
  /\ (InProcessOrder /\ loyalty_info # None) =>
       TierRank(loyalty_info.current_tier) >= TierRank(initial_loyalty.current_tier)

C7_Witness ==
  /\ LoyaltyCalled
  /\ ret.order_price = 401 * Scale
  /\ ret.out.value.current_tier = "gold"
  /\ calculate_loyalty_points(0, ret.customer_id).current_tier = "bronze"

ItemsAsClaimed(o, items) ==
  LET milky == o.drink_type = "latte" \/ o.drink_type = "cappuccino"
      shot == Occurrences("extra_shot", o.extras) > 0
  IN /\ Len(items) = IF shot THEN 3 ELSE 2
     /\ items[1] = <<"coffee_beans", 20>>
     /\ items[2] = <<"milk", IF milky THEN 200 ELSE 0>>
     /\ shot => items[3] = <<"coffee_beans", 10>>

\* C8: check_inventory returns items_used as exactly (coffee_beans, 20), then
\* (milk, 200) for a latte or cappuccino and (milk, 0) otherwise, then, if and
\* only if extra_shot is among the extras, a separate line (coffee_beans, 10).
C8_ItemsUsed ==
  /\ InventoryCalled => ItemsAsClaimed(ret.order, ret.out.value.items_used)
  /\ (InProcessOrder /\ inventory_update # None) =>
       ItemsAsClaimed(order, inventory_update.items_used)

C8_Witness ==
  /\ InventoryCalled
  /\ ret.order.drink_type = "espresso"
  /\ ret.order.extras = <<"syrup", "extra_shot">>
  /\ ret.out.value.items_used
       = << <<"coffee_beans", 20>>, <<"milk", 0>>, <<"coffee_beans", 10>> >>

RestockAsClaimed(o, restock) ==
  restock = IF o.drink_type = "espresso" THEN <<"coffee_beans">> ELSE <<>>

\* C9: check_inventory returns restock_needed = [coffee_beans] for an espresso
\* and an empty restock_needed for every other drink type, whatever the size
\* and the extras.
C9_RestockOnEspresso ==
  /\ InventoryCalled => RestockAsClaimed(ret.order, ret.out.value.restock_needed)
  /\ (InProcessOrder /\ inventory_update # None) =>
       RestockAsClaimed(order, inventory_update.restock_needed)

C9_Witness ==
  /\ InventoryCalled
  /\ ret.order.drink_type = "latte"
  /\ ret.order.size = "venti"
  /\ ret.order.extras = <<"extra_shot">>
  /\ ret.out.value.restock_needed = <<>>

\* C10: every OrderSummary returned by process_order has inventory_status =
\* WARNING_LOW_STOCK when the inventory outcome flags an item for restock and
\* READY_TO_PREPARE otherwise, estimated_wait = 5 + the number of entries of
\* the extras list, and status = ACCEPTED.
C10_SummaryFields ==
  (InProcessOrder /\ result # None) =>
    /\ pc = "returned"
    /\ result.order_id = order.order_id
    /\ result.inventory_status =
         (IF Len(inventory_update.restock_needed) > 0
          THEN "WARNING_LOW_STOCK" ELSE "READY_TO_PREPARE")
    /\ result.estimated_wait = 5 + Len(order.extras)
    /\ result.status = "ACCEPTED"

C10_Witness ==
  /\ pc = "returned"
  /\ result.inventory_status = "WARNING_LOW_STOCK"
  /\ result.status = "ACCEPTED"
  /\ order.extras = <<"syrup", "syrup">>
  /\ result.estimated_wait = 7

\* C11: the inventory check depends only on the order and shares no state with
\* the pricing/loyalty chain: whatever the interleaving of the inventory check
\* with the chain, joined before the combine step, the outcome is the
\* OrderSummary (or the failure) of the sequential process_order.
C11_InterleavingSameSummary ==
  /\ (pc \in {"forked", "combine", "except", "returned", "raised"}
        /\ inventory_update # None) =>
       inventory_update = check_inventory(order)
  /\ pc = "returned" =>
       /\ ~process_order(order).raised
       /\ result = process_order(order).value
  /\ pc = "raised" =>
       /\ process_order(order).raised
       /\ exc = process_order(order).exc
       /\ result = None

C11_Witness ==
  /\ pc = "returned"
  /\ calls[1].task = "check_inventory"
  /\ calls[4].task = "calculate_loyalty_points"
  /\ log[1].level = "WARNING"
  /\ result.inventory_status = "WARNING_LOW_STOCK"
  /\ result = process_order(order).value

WarningEntries == {i \in DOMAIN log : log[i].level = "WARNING"}

\* C12: process_inventory emits a warning-level low-stock message exactly when
\* restock_needed is non-empty, and then still returns the inventory outcome
\* normally (no error is raised); with an empty restock_needed it emits none.
C12_LowStockWarning ==
  InProcessOrder =>
    /\ pc \in {"initial_loyalty", "price", "final_loyalty", "check_inventory",
               "low_stock_alert"} => WarningEntries = {}
    /\ (pc \in {"except", "raised"} /\ inventory_update # None) =>
         inventory_update.restock_needed = <<>>
    /\ pc \in {"combine", "returned"} =>
         /\ inventory_update # None
         /\ exc = None
         /\ inventory_update.restock_needed # <<>> =>
              /\ Cardinality(WarningEntries) = 1
              /\ \A i \in WarningEntries : log[i].text[2] = inventory_update.restock_needed
         /\ inventory_update.restock_needed = <<>> => WarningEntries = {}

C12_Witness ==
  /\ pc = "combine"
  /\ order.drink_type = "espresso"
  /\ inventory_update.restock_needed = <<"coffee_beans">>
  /\ Cardinality(WarningEntries) = 1
  /\ exc = None

\* C13: no state persists across orders: after any sequence of process_order
\* calls, also earlier orders of the same customer and earlier failed orders,
\* the outcome of process_order is that of the order processed alone, and
\* total_points is 100 + the points earned by this order.
C13_NoStateAcrossOrders ==
  /\ pc = "returned" =>
       /\ ~process_order(order).raised
       /\ result = process_order(order).value
       /\ log = process_order(order).log
       /\ result.loyalty_info.total_points = 100 + result.loyalty_info.points_earned
       /\ result.loyalty_info.points_earned * Scale <= result.price_info.final_total
       /\ result.price_info.final_total < (result.loyalty_info.points_earned + 1) * Scale
  /\ pc = "raised" =>
       /\ process_order(order).raised
       /\ exc = process_order(order).exc
       /\ log = process_order(order).log

C13_Witness ==
  /\ pc = "returned"
  /\ past.earned >= 3
  /\ past.failed
  /\ order.customer_id \in past.customers
  /\ result.loyalty_info.total_points = 106

\* C14: in every OrderSummary returned by process_order the loyalty_discount is
\* 0 and final_total = base_price + extras_cost: the pre-order lookup sees the
\* fixed 100 points, so the pre-order tier is bronze and the silver and gold
\* rates are never applied through the workflow.
C14_NoDiscountInWorkflow ==
  InProcessOrder =>
    /\ initial_loyalty # None => initial_loyalty.current_tier = "bronze"
    /\ Len(calls) >= 2 => calls[2].loyalty_tier = "bronze"
    /\ price_info # None =>
         /\ price_info.loyalty_discount = 0
         /\ price_info.final_total = price_info.base_price + price_info.extras_cost
    /\ result # None =>
         /\ result.price_info.loyalty_discount = 0
         /\ result.price_info.final_total
              = result.price_info.base_price + result.price_info.extras_cost

C14_Witness ==
  /\ pc = "returned"
  /\ order.size = "large"
  /\ order.drink_type = "latte"
  /\ order.extras = <<"extra_shot", "extra_shot">>
  /\ result.price_info.loyalty_discount = 0
  /\ result.price_info.final_total = Cents(710)

\* C15: when pricing fails in process_order (unknown size) the inventory stage
\* is never started: no inventory outcome is computed and no low-stock warning
\* is emitted, even for an espresso; the only message logged is the
\* orchestrator's error.
C15_NoInventoryAfterPricingFailure ==
  (InProcessOrder /\ order.size \notin ValidSizes) =>
    /\ inventory_update = None
    /\ \A i \in DOMAIN calls : calls[i].task # "check_inventory"
    /\ \A i \in DOMAIN log : log[i].level = "ERROR"
    /\ pc \notin {"check_inventory", "low_stock_alert", "combine", "returned"}
    /\ pc = "raised" => Len(log) = 1 /\ Len(calls) = 2

C15_Witness ==
  /\ pc = "raised"
  /\ order.size = "venti"
  /\ order.drink_type = "espresso"
  /\ order.extras = <<"extra_shot">>
  /\ inventory_update = None
  /\ Len(log) = 1

\* C16: for an order whose extras contain extra_shot k >= 1 times, pricing
\* charges 0.80 for each of the k occurrences and estimated_wait counts each of
\* them, but the inventory outcome has exactly one (coffee_beans, 10) line.
C16_ExtraShotCounted ==
  (InProcessOrder /\ result # None /\ Occurrences("extra_shot", order.extras) >= 1) =>
    LET k == Occurrences("extra_shot", order.extras)
        others == Occurrences("whipped_cream", order.extras)
                    + Occurrences("syrup", order.extras)
        unpriced == Len(order.extras) - k - others
    IN /\ result.price_info.extras_cost = k * Cents(80) + others * Cents(50)
       /\ result.estimated_wait = 5 + k + others + unpriced
       /\ Occurrences(<<"coffee_beans", 10>>, inventory_update.items_used) = 1
       /\ Len(inventory_update.items_used) = 3

C16_Witness ==
  /\ pc = "returned"
  /\ order.extras = <<"extra_shot", "extra_shot">>
  /\ result.price_info.extras_cost = Cents(160)
  /\ result.estimated_wait = 7
  /\ Len(inventory_update.items_used) = 3

BothOver ==
  /\ pc \in {"returned", "raised"}
  /\ peer # None
  /\ peer.pc \in {"returned", "raised"}

WarningsOf(messages) == SelectSeq(messages, LAMBDA m : m.level = "WARNING")

\* C17: process_order (coffee_shop) and process_complete_order (simple_workflow)
\* are equivalent: on the same order either both return OrderSummary values
\* equal in every field or both fail with the same error, and they emit a
\* low-stock warning for exactly the same orders.
C17_PipelinesEquivalent ==
  BothOver =>
    /\ pc = peer.pc
    /\ result = peer.result
    /\ exc = peer.exc
    /\ WarningsOf(log) = WarningsOf(peer.log)

C17_Witness ==
  /\ BothOver
  /\ pc = "returned"
  /\ peer.pc = "returned"
  /\ order.drink_type = "espresso"
  /\ order.extras = <<"extra_shot", "syrup">>
  /\ peer.result.inventory_status = "WARNING_LOW_STOCK"
  /\ Len(WarningsOf(peer.log)) = 1

\* the forecast call has come back without data: request error, response
\* without daily data, or malformed response
WeatherNotRetrieved ==
  /\ travel # None
  /\ travel.weather_raw.t = "none"

\* C18: when the weather forecast cannot be retrieved, get_weather and
\* generate_travel_plan log that weather information could not be retrieved
\* and stop, returning no result: get_weather does not raise, and
\* generate_travel_plan neither fetches Reddit posts nor calls the itinerary
\* generator.
C18_WeatherFailureStops ==
  WeatherNotRetrieved =>
    /\ travel.pc \in {"weather_check", "done"}
    /\ \A i \in DOMAIN travel.calls :
         travel.calls[i] \notin {"get_reddit_posts", "generate_itinerary"}
    /\ travel.pc = "done" =>
         /\ ~travel.ret.raised
         /\ travel.ret.value = PyNone
         /\ travel.log[Len(travel.log)] = CouldNotRetrieveWeather

====
